---- MODULE Spec2Model ----
(***************************************************************************)
(* StatisticsCalculator (src/MultiParadigmPython.py): a calculator object  *)
(* holding a reference to a Python list (_data), a lazily computed sorted  *)
(* copy (_sorted_data) and a dict of memoised statistics (_cache).         *)
(*                                                                         *)
(* Python lists are mutable objects passed by reference, so the model has  *)
(* a heap of list objects and each calculator's _data is a list id.        *)
(* Python floats are modelled as exact rationals [num, den] in lowest      *)
(* terms; math.sqrt of a non-square is kept symbolic as [sqrt_of |-> r].   *)
(* Optional values are None (the empty tuple) or Some(v) (a 1-tuple).      *)
(***************************************************************************)
EXTENDS Integers, Sequences, FiniteSets, TLC

\* ------------------------------------------------------------------ bounds
\* Longest list two aliasing calculators work on (specification Spec).
MaxLen == 2
\* Longest new list handed to a calculator.
MaxArg == 2
\* Longest list of the single calculator of specification SpecOne.
MaxLenOne == 4

\* Element values of Spec and of SpecOne.
Values == {1, 2}
ValuesOne == {-1, 0, 2}

\* Calculator objects and list objects (one list per calculator suffices:
\* a list no calculator refers to is garbage).
Calcs == {1, 2}
ListIds == {1, 2}

VARIABLES
    heap,           \* list id -> contents of that list object
    _data,          \* calculator -> list id            (self._data)
    _sorted_data,   \* calculator -> None | Some(list)  (self._sorted_data)
    _cache,         \* calculator -> dict key -> value  (self._cache)
    sorts,          \* calculator -> times sorted(self._data) ran since the
                    \* calculator's last constructor or mutator call
    last            \* the last call: operation, calculator, arguments, outcome

vars == <<heap, _data, _sorted_data, _cache, sorts, last>>

\* ------------------------------------------------------------- Python values
None == <<>>
Some(v) == <<v>>

\* return v / raise type(msg)
Return(v) == [ok |-> TRUE, val |-> v]
Raise(type, msg) == [ok |-> FALSE, type |-> type, msg |-> msg]

\* The empty dict and d[k] = v.
EmptyDict == [k \in {} |-> None]
Put(d, k, v) == [x \in DOMAIN d \cup {k} |-> IF x = k THEN v ELSE d[x]]

\* Sequences over S of length at most n.
BSeq(S, n) == UNION {[1..k -> S] : k \in 0..n}

Abs(i) == IF i < 0 THEN -i ELSE i

RECURSIVE Gcd(_, _)
Gcd(a, b) == IF b = 0 THEN a ELSE Gcd(b, a % b)

\* The real number n/d (int / int true division), d > 0, in lowest terms.
Rat(n, d) ==
    LET g == Gcd(Abs(n), d)
    IN  [num |-> n \div g, den |-> d \div g]

\* float(i)
float(i) == Rat(i, 1)

RatLe(p, q) == p.num * q.den <= q.num * p.den

\* sum(s) of a list of ints
RECURSIVE sum(_)
sum(s) == IF s = <<>> THEN 0 ELSE Head(s) + sum(Tail(s))

\* bisect-style insertion of x after the elements <= x of a sorted list
RECURSIVE Insert(_, _)
Insert(s, x) ==
    IF s = <<>> THEN <<x>>
    ELSE IF x < Head(s) THEN <<x>> \o s
    ELSE <<Head(s)>> \o Insert(Tail(s), x)

\* sorted(s): a new list, ascending, stable
RECURSIVE sorted(_)
sorted(s) ==
    IF s = <<>> THEN <<>>
    ELSE Insert(sorted(SubSeq(s, 1, Len(s) - 1)), s[Len(s)])

\* ------------------------------------------------------- real arithmetic
RatAdd(p, q) == Rat(p.num * q.den + q.num * p.den, p.den * q.den)
RatSub(p, q) == Rat(p.num * q.den - q.num * p.den, p.den * q.den)
RatMul(p, q) == Rat(p.num * q.num, p.den * q.den)
\* A division that leaves the dividend as it is.
RatDivInt_keeps_dividend(p, k) == Rat(p.num, p.den)

\* p / k for an int k > 0
RatDivInt(p, k) == Rat(p.num, p.den * k)

\* sum((x - mean_val) ** 2 for x in s)
RECURSIVE SumSqDev(_, _)
SumSqDev(s, mean_val) ==
    IF s = <<>> THEN float(0)
    ELSE LET d == RatSub(float(Head(s)), mean_val)
         IN  RatAdd(RatMul(d, d), SumSqDev(Tail(s), mean_val))

\* math.sqrt(r) for r >= 0: exact when r is the square of a rational
sqrt(r) ==
    IF \E a \in 0..r.num, b \in 1..r.den : a * a = r.num /\ b * b = r.den
    THEN LET a == CHOOSE a \in 0..r.num : a * a = r.num
             b == CHOOSE b \in 1..r.den : b * b = r.den
         IN  Rat(a, b)
    ELSE [sqrt_of |-> r]

\* ------------------------------------------------------------ the object
\* A calculator seen from inside a method: the contents of the list that
\* self._data refers to, self._sorted_data and self._cache.  A method maps
\* an object to Outcome(object afterwards, Return(..) or Raise(..)).  The
\* object also carries the count of the sorts made for it.
Outcome(o, out) == [o |-> o, out |-> out]

\* The messages of the exceptions raised.
EmptyMsg ==
    [mean |-> "Cannot calculate mean: data is empty",
     median |-> "Cannot calculate median: data is empty",
     mode |-> "Cannot calculate mode: data is empty",
     standard_deviation |-> "Cannot calculate standard deviation: data is empty",
     range |-> "Cannot calculate range: data is empty"]
InsufficientMsg ==
    "Cannot calculate sample standard deviation with less than 2 data points"
IndexErrorMsg == "list index out of range"
FormatNoneMsg == "unsupported format string passed to NoneType.__format__"

\* _get_sorted_data() sorting the list in place (self._data.sort()) and
\* keeping that list as the sorted view.
_get_sorted_data_in_place(o) ==
    IF o.sorted = None
    THEN LET o2 == [o EXCEPT !.data = sorted(o.data),
                             !.sorted = Some(sorted(o.data)), !.sorts = @ + 1]
         IN  Outcome(o2, Return(o2.sorted[1]))
    ELSE Outcome(o, Return(o.sorted[1]))

\* _get_sorted_data() sorting on every call, whatever is already stored.
_get_sorted_data_sorts_again(o) ==
    LET o2 == [o EXCEPT !.sorted = Some(sorted(o.data)), !.sorts = @ + 1]
    IN  Outcome(o2, Return(o2.sorted[1]))

_get_sorted_data(o) ==
    IF o.sorted = None
    THEN LET o2 == [o EXCEPT !.sorted = Some(sorted(o.data)), !.sorts = @ + 1]
         IN  Outcome(o2, Return(o2.sorted[1]))
    ELSE Outcome(o, Return(o.sorted[1]))

\* mean() with floor division (sum // len) in place of true division.
mean_floor_division(o) ==
    IF "mean" \notin DOMAIN o.cache
    THEN IF o.data = <<>>
         THEN Outcome(o, Raise("ValueError", EmptyMsg.mean))
         ELSE LET o2 == [o EXCEPT !.cache =
                            Put(@, "mean", float(sum(o.data) \div Len(o.data)))]
              IN  Outcome(o2, Return(o2.cache["mean"]))
    ELSE Outcome(o, Return(o.cache["mean"]))

mean(o) ==
    IF "mean" \notin DOMAIN o.cache
    THEN IF o.data = <<>>
         THEN Outcome(o, Raise("ValueError", EmptyMsg.mean))
         ELSE LET o2 == [o EXCEPT !.cache =
                            Put(@, "mean", Rat(sum(o.data), Len(o.data)))]
              IN  Outcome(o2, Return(o2.cache["mean"]))
    ELSE Outcome(o, Return(o.cache["mean"]))

\* median() taking the upper middle element whatever the length.
median_upper_middle(o) ==
    IF "median" \notin DOMAIN o.cache
    THEN IF o.data = <<>>
         THEN Outcome(o, Raise("ValueError", EmptyMsg.median))
         ELSE LET g == _get_sorted_data(o)
                  sorted_data == g.out.val
                  mid == Len(sorted_data) \div 2
                  o2 == [g.o EXCEPT !.cache =
                            Put(@, "median", float(sorted_data[mid + 1]))]
              IN  Outcome(o2, Return(o2.cache["median"]))
    ELSE Outcome(o, Return(o.cache["median"]))

median(o) ==
    IF "median" \notin DOMAIN o.cache
    THEN IF o.data = <<>>
         THEN Outcome(o, Raise("ValueError", EmptyMsg.median))
         ELSE LET g == _get_sorted_data(o)
                  sorted_data == g.out.val
                  n == Len(sorted_data)
                  mid == n \div 2
              IN  IF n = 0
                  THEN Outcome(g.o, Raise("IndexError", IndexErrorMsg))
                  ELSE LET value ==
                               IF n % 2 = 0
                               THEN Rat(sorted_data[mid] + sorted_data[mid + 1], 2)
                               ELSE float(sorted_data[mid + 1])
                           o2 == [g.o EXCEPT !.cache = Put(@, "median", value)]
                       IN  Outcome(o2, Return(o2.cache["median"]))
    ELSE Outcome(o, Return(o.cache["median"]))

\* Counter(s): the distinct values in first-occurrence order, and their counts
RECURSIVE CounterKeys(_)
CounterKeys(s) ==
    IF s = <<>> THEN <<>>
    ELSE LET k == CounterKeys(SubSeq(s, 1, Len(s) - 1))
             x == s[Len(s)]
         IN  IF \E i \in 1..Len(k) : k[i] = x THEN k ELSE Append(k, x)

Counter(s) ==
    [v \in {s[i] : i \in 1..Len(s)} |-> Cardinality({i \in 1..Len(s) : s[i] = v})]

\* [value for value in keys if freq[value] == max_freq]
RECURSIVE Select(_, _, _)
Select(keys, freq, max_freq) ==
    IF keys = <<>> THEN <<>>
    ELSE IF freq[Head(keys)] = max_freq
         THEN <<Head(keys)>> \o Select(Tail(keys), freq, max_freq)
         ELSE Select(Tail(keys), freq, max_freq)

\* mode() without modes.sort(): the modes in first-occurrence order.
mode_unsorted(o) ==
    IF "mode" \notin DOMAIN o.cache
    THEN IF o.data = <<>>
         THEN Outcome(o, Raise("ValueError", EmptyMsg.mode))
         ELSE LET freq_counter == Counter(o.data)
                  max_freq == CHOOSE m \in {freq_counter[v] : v \in DOMAIN freq_counter} :
                                  \A v \in DOMAIN freq_counter : freq_counter[v] <= m
                  modes == Select(CounterKeys(o.data), freq_counter, max_freq)
                  o2 == [o EXCEPT !.cache = Put(@, "mode", modes)]
              IN  Outcome(o2, Return(o2.cache["mode"]))
    ELSE Outcome(o, Return(o.cache["mode"]))

mode(o) ==
    IF "mode" \notin DOMAIN o.cache
    THEN IF o.data = <<>>
         THEN Outcome(o, Raise("ValueError", EmptyMsg.mode))
         ELSE LET freq_counter == Counter(o.data)
                  max_freq == CHOOSE m \in {freq_counter[v] : v \in DOMAIN freq_counter} :
                                  \A v \in DOMAIN freq_counter : freq_counter[v] <= m
                  modes == Select(CounterKeys(o.data), freq_counter, max_freq)
                  o2 == [o EXCEPT !.cache = Put(@, "mode", sorted(modes))]
              IN  Outcome(o2, Return(o2.cache["mode"]))
    ELSE Outcome(o, Return(o.cache["mode"]))

\* standard_deviation() calling mean() before it checks the number of data
\* points.
standard_deviation_mean_first(o, population) ==
    IF o.data = <<>>
    THEN Outcome(o, Raise("ValueError", EmptyMsg.standard_deviation))
    ELSE LET n == Len(o.data)
             m == mean(o)
         IN  IF ~m.out.ok THEN m
             ELSE IF ~population /\ n < 2
             THEN Outcome(m.o, Raise("ValueError", InsufficientMsg))
             ELSE LET variance ==
                          RatDivInt(SumSqDev(o.data, m.out.val),
                                    IF population THEN n ELSE n - 1)
                  IN  Outcome(m.o, Return(sqrt(variance)))

\* standard_deviation() asking for two data points of both variants.
standard_deviation_needs_two(o, population) ==
    IF o.data = <<>>
    THEN Outcome(o, Raise("ValueError", EmptyMsg.standard_deviation))
    ELSE LET n == Len(o.data)
         IN  IF n < 2
             THEN Outcome(o, Raise("ValueError", InsufficientMsg))
             ELSE LET m == mean(o)
                  IN  IF ~m.out.ok THEN m
                      ELSE LET variance ==
                                   RatDivInt(SumSqDev(o.data, m.out.val),
                                             IF population THEN n ELSE n - 1)
                           IN  Outcome(m.o, Return(sqrt(variance)))

standard_deviation(o, population) ==
    IF o.data = <<>>
    THEN Outcome(o, Raise("ValueError", EmptyMsg.standard_deviation))
    ELSE LET n == Len(o.data)
         IN  IF population /\ n = 0
             THEN Outcome(o, Return(float(0)))
             ELSE IF ~population /\ n < 2
             THEN Outcome(o, Raise("ValueError", InsufficientMsg))
             ELSE LET m == mean(o)
                  IN  IF ~m.out.ok THEN m
                      ELSE LET variance ==
                                   RatDivInt(SumSqDev(o.data, m.out.val),
                                             IF population THEN n ELSE n - 1)
                           IN  Outcome(m.o, Return(sqrt(variance)))

\* range() memoising its result under a key of its own, as mean() does.
range_memoised(o) ==
    IF "range" \notin DOMAIN o.cache
    THEN IF o.data = <<>>
         THEN Outcome(o, Raise("ValueError", EmptyMsg.range))
         ELSE LET g == _get_sorted_data(o)
                  sorted_data == g.out.val
                  o2 == [g.o EXCEPT !.cache =
                            Put(@, "range", sorted_data[Len(sorted_data)] - sorted_data[1])]
              IN  Outcome(o2, Return(o2.cache["range"]))
    ELSE Outcome(o, Return(o.cache["range"]))

\* range() taking the last and the first element of data as inserted.
range_unsorted(o) ==
    IF o.data = <<>>
    THEN Outcome(o, Raise("ValueError", EmptyMsg.range))
    ELSE LET g == _get_sorted_data(o)
         IN  Outcome(g.o, Return(o.data[Len(o.data)] - o.data[1]))

range(o) ==
    IF o.data = <<>>
    THEN Outcome(o, Raise("ValueError", EmptyMsg.range))
    ELSE LET g == _get_sorted_data(o)
             sorted_data == g.out.val
         IN  IF sorted_data = <<>>
             THEN Outcome(g.o, Raise("IndexError", IndexErrorMsg))
             ELSE Outcome(g.o, Return(sorted_data[Len(sorted_data)] - sorted_data[1]))

\* try: d[key] = <call> / except ValueError: d[key] = None
Caught(out) == IF out.ok THEN Some(out.val) ELSE None
Escapes(out) == ~out.ok /\ out.type # "ValueError"

\* v, then F(v): the first call is evaluated once and its outcome handed on
Then(v, F(_)) == CHOOSE r \in {F(x) : x \in {v}} : TRUE

\* The dict summary() returns, from the six outcomes and min/max.
SummaryDict(r1, r2, r3, r4, r5, r6, count, min, max) ==
    [mean |-> Caught(r1.out),
     median |-> Caught(r2.out),
     mode |-> Caught(r3.out),
     std_dev_sample |-> Caught(r4.out),
     std_dev_population |-> Caught(r5.out),
     range |-> Caught(r6.out),
     count |-> count,
     min |-> min,
     max |-> max]

summary(o) ==
    Then(mean(o), LAMBDA r1 : IF Escapes(r1.out) THEN r1 ELSE
    Then(median(r1.o), LAMBDA r2 : IF Escapes(r2.out) THEN r2 ELSE
    Then(mode(r2.o), LAMBDA r3 : IF Escapes(r3.out) THEN r3 ELSE
    Then(standard_deviation(r3.o, FALSE), LAMBDA r4 : IF Escapes(r4.out) THEN r4 ELSE
    Then(standard_deviation(r4.o, TRUE), LAMBDA r5 : IF Escapes(r5.out) THEN r5 ELSE
    Then(range(r5.o), LAMBDA r6 : IF Escapes(r6.out) THEN r6 ELSE
        IF o.data # <<>>
        THEN Then(_get_sorted_data(r6.o), LAMBDA g :
                 LET sorted_data == g.out.val
                 IN  IF sorted_data = <<>>
                     THEN Outcome(g.o, Raise("IndexError", IndexErrorMsg))
                     ELSE Outcome(g.o, Return(
                              SummaryDict(r1, r2, r3, r4, r5, r6, Len(o.data),
                                          Some(sorted_data[1]),
                                          Some(sorted_data[Len(sorted_data)])))))
        ELSE Outcome(r6.o, Return(
                 SummaryDict(r1, r2, r3, r4, r5, r6, Len(o.data), None, None)))))))))

\* f"{x:.4f}" of a number, and the text put in its place when x is None
Fmt4(x) == [fmt |-> ".4f", of |-> x]
NA == [text |-> "N/A"]

ErrorText(msg) ==
    [text |-> "StatisticsCalculator: Error generating statistics - ", e |-> msg]

\* __str__() going through summary() also when data is empty.
__str__no_empty_check(o) ==
         Then(summary(o), LAMBDA s :
             IF ~s.out.ok THEN Outcome(s.o, Return(ErrorText(s.out.msg)))
             ELSE IF s.out.val.mean = None
             THEN Outcome(s.o, Return(ErrorText(FormatNoneMsg)))
             ELSE LET d == s.out.val
                  IN  Outcome(s.o, Return(
                          [text |-> "Statistics Calculator Summary:",
                           count |-> d.count,
                           min |-> d.min, max |-> d.max, range |-> d.range,
                           mean |-> Fmt4(d.mean[1]),
                           median |-> d.median,
                           mode |-> d.mode,
                           std_dev_sample |->
                               IF d.std_dev_sample # None
                               THEN Fmt4(d.std_dev_sample[1]) ELSE NA,
                           std_dev_population |->
                               IF d.std_dev_population # None
                               THEN Fmt4(d.std_dev_population[1]) ELSE NA])))

__str__(o) ==
    IF o.data = <<>>
    THEN Outcome(o, Return([text |-> "StatisticsCalculator: No data available"]))
    ELSE Then(summary(o), LAMBDA s :
             IF ~s.out.ok THEN Outcome(s.o, Return(ErrorText(s.out.msg)))
             ELSE IF s.out.val.mean = None
             THEN Outcome(s.o, Return(ErrorText(FormatNoneMsg)))
             ELSE LET d == s.out.val
                  IN  Outcome(s.o, Return(
                          [text |-> "Statistics Calculator Summary:",
                           count |-> d.count,
                           min |-> d.min, max |-> d.max, range |-> d.range,
                           mean |-> Fmt4(d.mean[1]),
                           median |-> d.median,
                           mode |-> d.mode,
                           std_dev_sample |->
                               IF d.std_dev_sample # None
                               THEN Fmt4(d.std_dev_sample[1]) ELSE NA,
                           std_dev_population |->
                               IF d.std_dev_population # None
                               THEN Fmt4(d.std_dev_population[1]) ELSE NA])))

\* ------------------------------------------------------------- the state
\* The calculator c as its methods see it.
Obj(c) ==
    [data |-> heap[_data[c]], sorted |-> _sorted_data[c], cache |-> _cache[c],
     sorts |-> sorts[c]]

\* A list argument is a list object: one just built by the caller,
\* [new |-> contents], or one some calculator already refers to (the caller
\* kept it after passing it, or got it from the data property), [ref |-> id].
IsNew(a) == "new" \in DOMAIN a
ListArgs(CS, VS, ML) ==
    {[new |-> s] : s \in BSeq(VS, ML)} \cup {[ref |-> _data[c]] : c \in CS}
Contents(a) == IF IsNew(a) THEN a.new ELSE heap[a.ref]

\* The id a new list object gets: one no other calculator refers to.
FreshId(c) == CHOOSE l \in ListIds : \A c2 \in Calcs \ {c} : _data[c2] # l

\* Lists no calculator refers to any more are dropped.
Collect(h, d) ==
    [l \in ListIds |-> IF \E c \in Calcs : d[c] = l THEN h[l] ELSE <<>>]

\* self._sorted_data = None; self._cache.clear()
Invalidate(c) ==
    /\ _sorted_data' = [_sorted_data EXCEPT ![c] = None]
    /\ _cache' = [_cache EXCEPT ![c] = EmptyDict]

\* A constructor or mutator call starts a new count of sorts.
NewGeneration(c) == sorts' = [sorts EXCEPT ![c] = 0]

\* self._data = <list object a>
Bind(c, a) ==
    LET id == IF IsNew(a) THEN FreshId(c) ELSE a.ref
        d  == [_data EXCEPT ![c] = id]
        h  == IF IsNew(a) THEN [heap EXCEPT ![id] = a.new] ELSE heap
    IN  /\ _data' = d
        /\ heap' = Collect(h, d)

Init ==
    /\ heap = [l \in ListIds |-> <<>>]
    /\ _data = [c \in Calcs |-> c]
    /\ _sorted_data = [c \in Calcs |-> None]
    /\ _cache = [c \in Calcs |-> EmptyDict]
    /\ sorts = [c \in Calcs |-> 0]
    /\ last = [op |-> "start"]

\* ------------------------------------------------------------- mutators
\* c = StatisticsCalculator(data): data is None or a list object
__init__(c, data) ==
    /\ Bind(c, IF data = None THEN [new |-> <<>>] ELSE data[1])
    /\ _sorted_data' = [_sorted_data EXCEPT ![c] = None]
    /\ _cache' = [_cache EXCEPT ![c] = EmptyDict]
    /\ NewGeneration(c)
    /\ last' = [op |-> "__init__", c |-> c, data |-> data]

\* The data setter rebinding the list and leaving the cached results.
data_setter_keeps_cache(c, new_data) ==
    /\ Bind(c, new_data)
    /\ UNCHANGED <<_sorted_data, _cache>>
    /\ NewGeneration(c)
    /\ last' = [op |-> "data.setter", c |-> c, new_data |-> new_data]

\* c.data = new_data
data_setter(c, new_data) ==
    /\ Bind(c, new_data)
    /\ Invalidate(c)
    /\ NewGeneration(c)
    /\ last' = [op |-> "data.setter", c |-> c, new_data |-> new_data]

\* add_value() inserting at the front (insert(0, value)) instead of appending.
add_value_prepends(c, value, ML) ==
    /\ Len(heap[_data[c]]) < ML
    /\ heap' = [heap EXCEPT ![_data[c]] = <<value>> \o @]
    /\ Invalidate(c)
    /\ UNCHANGED _data
    /\ NewGeneration(c)
    /\ last' = [op |-> "add_value", c |-> c, value |-> value]

add_value(c, value, ML) ==
    /\ Len(heap[_data[c]]) < ML
    /\ heap' = [heap EXCEPT ![_data[c]] = Append(@, value)]
    /\ Invalidate(c)
    /\ UNCHANGED _data
    /\ NewGeneration(c)
    /\ last' = [op |-> "add_value", c |-> c, value |-> value]

\* add_values() that invalidates only when there is something to append.
add_values_skips_empty(c, values, ML) ==
    /\ Len(heap[_data[c]]) + Len(Contents(values)) <= ML
    /\ heap' = [heap EXCEPT ![_data[c]] = @ \o Contents(values)]
    /\ IF Contents(values) = <<>>
       THEN UNCHANGED <<_sorted_data, _cache>>
       ELSE Invalidate(c)
    /\ UNCHANGED _data
    /\ NewGeneration(c)
    /\ last' = [op |-> "add_values", c |-> c, values |-> Contents(values)]

\* values is a list object; list.extend reads its contents as the call starts
add_values(c, values, ML) ==
    /\ Len(heap[_data[c]]) + Len(Contents(values)) <= ML
    /\ heap' = [heap EXCEPT ![_data[c]] = @ \o Contents(values)]
    /\ Invalidate(c)
    /\ UNCHANGED _data
    /\ NewGeneration(c)
    /\ last' = [op |-> "add_values", c |-> c, values |-> Contents(values)]

\* clear_data() that empties the data and leaves the cached results.
clear_data_keeps_cache(c) ==
    /\ Bind(c, [new |-> <<>>])
    /\ UNCHANGED <<_sorted_data, _cache>>
    /\ NewGeneration(c)
    /\ last' = [op |-> "clear_data", c |-> c]

clear_data(c) ==
    /\ Bind(c, [new |-> <<>>])
    /\ Invalidate(c)
    /\ NewGeneration(c)
    /\ last' = [op |-> "clear_data", c |-> c]

\* -------------------------------------------------------------- readers
\* A method call that leaves r.o as the object and r.out as its outcome.
Call(c, r, rec) ==
    /\ heap' = [heap EXCEPT ![_data[c]] = r.o.data]
    /\ _sorted_data' = [_sorted_data EXCEPT ![c] = r.o.sorted]
    /\ _cache' = [_cache EXCEPT ![c] = r.o.cache]
    /\ sorts' = [sorts EXCEPT ![c] = r.o.sorts]
    /\ UNCHANGED _data
    /\ last' = [k \in DOMAIN rec \cup {"out"} |-> IF k = "out" THEN r.out ELSE rec[k]]

Mean(c) == Call(c, mean(Obj(c)), [op |-> "mean", c |-> c])
Median(c) == Call(c, median(Obj(c)), [op |-> "median", c |-> c])
Mode(c) == Call(c, mode(Obj(c)), [op |-> "mode", c |-> c])
StandardDeviation(c, population) ==
    Call(c, standard_deviation(Obj(c), population),
         [op |-> "standard_deviation", c |-> c, population |-> population])
Range(c) == Call(c, range(Obj(c)), [op |-> "range", c |-> c])
Summary(c) == Call(c, summary(Obj(c)), [op |-> "summary", c |-> c])
Str(c) == Call(c, __str__(Obj(c)), [op |-> "__str__", c |-> c])

\* ----------------------------------------------------------- the caller
\* m = c.mode() (or c.summary()['mode']) earlier in this generation, then
\* m.append(value): mode() returns self._cache['mode'], the list object the
\* cache holds, so the caller's append is an append to the cached list.
returned_mode_append(c, value, ML) ==
    /\ "mode" \in DOMAIN _cache[c]
    /\ Len(_cache[c]["mode"]) < ML
    /\ _cache' = [_cache EXCEPT ![c]["mode"] = Append(@, value)]
    /\ UNCHANGED <<heap, _data, _sorted_data, sorts>>
    /\ last' = [op |-> "returned_mode.append", c |-> c, value |-> value]

\* ------------------------------------------------------- specifications
\* A constructor or mutator call on calculator c, with values of VS, lists
\* of at most ML elements and list arguments that are new lists of at most
\* AL elements or the lists of the calculators RS.
Mutate(c, RS, VS, ML, AL) ==
    \/ \E a \in {None} \cup {Some(x) : x \in ListArgs(RS, VS, AL)} : __init__(c, a)
    \/ \E a \in ListArgs(RS, VS, AL) : data_setter(c, a)
    \/ \E v \in VS : add_value(c, v, ML)
    \/ \E a \in ListArgs(RS, VS, AL) : add_values(c, a, ML)
    \/ clear_data(c)

\* A reader call on calculator c.
Read(c) ==
    \/ Mean(c)
    \/ Median(c)
    \/ Mode(c)
    \/ \E population \in BOOLEAN : StandardDeviation(c, population)
    \/ Range(c)
    \/ Summary(c)
    \/ Str(c)

\* A second calculator built from the list calculator 1 refers to, and the
\* calls on it that change a list.
Second(RS, VS, ML, AL) ==
    \/ __init__(2, Some([ref |-> _data[1]]))
    \/ \E v \in VS : add_value(2, v, ML)
    \/ \E a \in ListArgs(RS, VS, AL) : add_values(2, a, ML)

\* Calculator 1, under any calls, and a second calculator that may be
\* handed the same list objects.
Next ==
    \/ Mutate(1, Calcs, Values, MaxLen, MaxArg)
    \/ Read(1)
    \/ Second(Calcs, Values, MaxLen, MaxArg)
Spec == Init /\ [][Next]_vars

\* One calculator, the only user of its lists.
NextOne ==
    \/ Mutate(1, {1}, ValuesOne, MaxLenOne, MaxArg)
    \/ Read(1)
SpecOne == Init /\ [][NextOne]_vars

\* One calculator, the only user of its lists, and a caller that keeps the
\* list mode() returned and appends to it.
NextCaller ==
    \/ Mutate(1, {1}, Values, MaxLen, MaxArg)
    \/ Read(1)
    \/ \E v \in Values : returned_mode_append(1, v, MaxLen)
SpecCaller == Init /\ [][NextCaller]_vars

\* =================================================================== claims
\* The contents of the list calculator c refers to.
Data(c) == heap[_data[c]]

\* The calculator a caller would get by building a new one from the same
\* contents: nothing sorted, nothing cached.
Fresh(s) == [data |-> s, sorted |-> None, cache |-> EmptyDict, sorts |-> 0]

MutatorOps == {"data.setter", "add_value", "add_values", "clear_data"}

\* Number of occurrences of v in s; smallest and largest element; the k-th
\* smallest element, by counting.
Count(s, v) == Cardinality({i \in 1..Len(s) : s[i] = v})
Elems(s) == {s[i] : i \in 1..Len(s)}
MinOf(s) == CHOOSE v \in Elems(s) : \A w \in Elems(s) : v <= w
MaxOf(s) == CHOOSE v \in Elems(s) : \A w \in Elems(s) : w <= v
Kth(s, k) ==
    CHOOSE v \in Elems(s) :
        /\ Cardinality({i \in 1..Len(s) : s[i] < v}) < k
        /\ k <= Cardinality({i \in 1..Len(s) : s[i] <= v})

\* The sum of s as the sum over its distinct values of value * occurrences.
RECURSIVE SumByValue(_, _)
SumByValue(S, s) ==
    IF S = {} THEN 0
    ELSE LET v == CHOOSE v \in S : TRUE
         IN  v * Count(s, v) + SumByValue(S \ {v}, s)

\* The failure a reader reports on empty data (the spec's EmptyDataError).
IsEmptyDataError(out, reader) ==
    out = Raise("ValueError", EmptyMsg[reader])

\* ---------------------------------------------------------------------------
\* C1: every key present in the cache holds the value that statistic has for
\* the data as it is now (what the reader computes from the current contents),
\* so mean(), median() and mode() never return a value computed for an
\* earlier content of data.
C1_CacheHoldsCurrentStatistics ==
    \A c \in Calcs :
        /\ "mean" \in DOMAIN _cache[c] =>
               _cache[c]["mean"] = mean(Fresh(Data(c))).out.val
        /\ "median" \in DOMAIN _cache[c] =>
               _cache[c]["median"] = median(Fresh(Data(c))).out.val
        /\ "mode" \in DOMAIN _cache[c] =>
               _cache[c]["mode"] = mode(Fresh(Data(c))).out.val

\* ---------------------------------------------------------------------------
\* C2: after each of the four mutators, whatever its argument, the sorted
\* view of the calculator it was called on is absent and its cache has no key
\* at all.
C2_MutatorsInvalidateEverything ==
    last.op \in MutatorOps =>
        /\ _sorted_data[last.c] = None
        /\ DOMAIN _cache[last.c] = {}

\* add_values with an empty sequence has just run on calculator 1, whose
\* data is not empty.
C2_Witness ==
    /\ last.op = "add_values"
    /\ last.c = 1
    /\ last.values = <<>>
    /\ Data(1) # <<>>

\* ---------------------------------------------------------------------------
\* C3: the calculator exclusively owns its data sequence: a call on one
\* calculator (the caller's use of a sequence it passed in or got from the
\* data property) never changes the contents of the list another calculator
\* refers to.
C3_ExclusiveOwnership ==
    [][\A c \in Calcs : last'.c # c => Data(c)' = Data(c)]_vars

\* ---------------------------------------------------------------------------
\* C4: in every reachable state in which data is empty, mean, median, mode,
\* range and both standard deviations fail with the empty-data error, and none
\* returns a (cached) value.
C4_EmptyDataFails ==
    \A c \in Calcs :
        Data(c) = <<>> =>
            /\ IsEmptyDataError(mean(Obj(c)).out, "mean")
            /\ IsEmptyDataError(median(Obj(c)).out, "median")
            /\ IsEmptyDataError(mode(Obj(c)).out, "mode")
            /\ IsEmptyDataError(range(Obj(c)).out, "range")
            /\ IsEmptyDataError(standard_deviation(Obj(c), TRUE).out,
                                "standard_deviation")
            /\ IsEmptyDataError(standard_deviation(Obj(c), FALSE).out,
                                "standard_deviation")

\* The sample standard deviation was asked of calculator 1 while its data was
\* empty, and the empty-data error came back.
C4_Witness ==
    /\ last.op = "standard_deviation"
    /\ ~last.population
    /\ Data(1) = <<>>
    /\ IsEmptyDataError(last.out, "standard_deviation")

\* ---------------------------------------------------------------------------
\* The error kind of an outcome is the exception class raised.
ErrorKind(out) == out.type
EmptyDataKind == ErrorKind(standard_deviation(Fresh(<<>>), FALSE).out)

C6_SummaryFields ==
    last.op = "summary" =>
        LET c == last.c
            d == last.out.val
            Field(out) == IF out.ok THEN Some(out.val) ELSE None
        IN  /\ last.out.ok
            /\ d.count = Len(Data(c))
            /\ d.mean = Field(mean(Obj(c)).out)
            /\ d.median = Field(median(Obj(c)).out)
            /\ d.mode = Field(mode(Obj(c)).out)
            /\ d.std_dev_sample = Field(standard_deviation(Obj(c), FALSE).out)
            /\ d.std_dev_population = Field(standard_deviation(Obj(c), TRUE).out)
            /\ d.range = Field(range(Obj(c)).out)
            /\ d.min = IF Data(c) = <<>> THEN None ELSE Some(MinOf(Data(c)))
            /\ d.max = IF Data(c) = <<>> THEN None ELSE Some(MaxOf(Data(c)))

\* ---------------------------------------------------------------------------
\* C7: each constructor and mutator call changes data exactly as specified:
\* the constructor and the setter make it the given sequence (empty for no
\* argument), add_value appends the value, add_values appends the elements
\* of its argument in their order, clear_data empties it.
C7_MutatorsChangeData ==
    [][\A c \in Calcs : last'.c = c =>
          /\ last'.op = "__init__" =>
                 Data(c)' = IF last'.data = None THEN <<>> ELSE Contents(last'.data[1])
          /\ last'.op = "data.setter" => Data(c)' = Contents(last'.new_data)
          /\ last'.op = "add_value" => Data(c)' = Data(c) \o <<last'.value>>
          /\ last'.op = "add_values" =>
                 /\ Len(Data(c)') = Len(Data(c)) + Len(last'.values)
                 /\ \A i \in 1..Len(Data(c)) : Data(c)'[i] = Data(c)[i]
                 /\ \A i \in 1..Len(last'.values) :
                        Data(c)'[Len(Data(c)) + i] = last'.values[i]
          /\ last'.op = "clear_data" => Data(c)' = <<>>]_vars

\* add_values has appended two different values, in their order, to data
\* that already held a duplicate pair.
C7_Witness ==
    /\ last.op = "add_values"
    /\ last.c = 1
    /\ Len(last.values) = 2
    /\ last.values[1] # last.values[2]
    /\ Len(Data(1)) = 4
    /\ Data(1)[1] = Data(1)[2]
    /\ SubSeq(Data(1), 3, 4) = last.values

\* ---------------------------------------------------------------------------
\* The median of s by counting: the middle element by rank for an odd length,
\* half the sum of the two middle ranks for an even one.
MedianOf(s) ==
    LET n == Len(s)
    IN  IF n % 2 = 1
        THEN [twice |-> 2 * Kth(s, (n + 1) \div 2)]
        ELSE [twice |-> Kth(s, n \div 2) + Kth(s, n \div 2 + 1)]

\* C8: for every non-empty data, median() returns the middle element of the
\* ascending sort (odd length) or the average of the two middle elements
\* (even length), and the result lies between the smallest and the largest
\* element.
C8_Median ==
    Data(1) # <<>> =>
        LET out == median(Obj(1)).out
        IN  /\ out.ok
            /\ out.val.den > 0
            /\ 2 * out.val.num = MedianOf(Data(1)).twice * out.val.den
            /\ RatLe(float(MinOf(Data(1))), out.val)
            /\ RatLe(out.val, float(MaxOf(Data(1))))

\* median() has returned the average of two different middle elements of an
\* even-length data that was not inserted in ascending order.
C8_Witness ==
    /\ last.op = "median"
    /\ last.out.ok
    /\ Len(Data(1)) = 4
    /\ last.out.val.den = 2
    /\ Data(1)[1] > Data(1)[2]

\* ---------------------------------------------------------------------------
\* C9: for every non-empty data, mode() returns a non-empty, strictly
\* ascending sequence holding exactly the values whose number of occurrences
\* is the largest number of occurrences of any value.
C9_Mode ==
    Data(1) # <<>> =>
        LET out == mode(Obj(1)).out
            D == Data(1)
        IN  /\ out.ok
            /\ out.val # <<>>
            /\ \A i \in 1..(Len(out.val) - 1) : out.val[i] < out.val[i + 1]
            /\ Elems(out.val) =
                   {v \in Elems(D) : \A w \in Elems(D) : Count(D, w) <= Count(D, v)}

\* mode() has returned a three-way tie for data inserted in descending order.
C9_Witness ==
    /\ last.op = "mode"
    /\ last.out.ok
    /\ Len(last.out.val) = 3
    /\ Len(Data(1)) = 3
    /\ Data(1)[1] > Data(1)[2]
    /\ Data(1)[2] > Data(1)[3]

\* ---------------------------------------------------------------------------
\* C10: for every non-empty data, mean() is exactly sum(data) / len(data),
\* whatever the insertion order.
C10_Mean ==
    Data(1) # <<>> =>
        LET out == mean(Obj(1)).out
        IN  /\ out.ok
            /\ out.val.den > 0
            /\ out.val.num * Len(Data(1)) =
                   SumByValue(Elems(Data(1)), Data(1)) * out.val.den

\* mean() has returned a negative non-integer mean.
C10_Witness ==
    /\ last.op = "mean"
    /\ last.out.ok
    /\ last.out.val.den = 3
    /\ last.out.val.num < 0

\* ---------------------------------------------------------------------------
\* C11: for every non-empty data, range() returns max(data) - min(data),
\* which is never negative and is 0 when all elements are equal, whether the
\* sorted view is still absent or was already computed by an earlier call.
C11_Range ==
    Data(1) # <<>> =>
        LET out == range(Obj(1)).out
            D == Data(1)
        IN  /\ out = Return(MaxOf(D) - MinOf(D))
            /\ out.val >= 0
            /\ Cardinality(Elems(D)) = 1 => out.val = 0

\* range() has returned a positive range for data inserted in descending
\* order, after median() had already computed the sorted view.
C11_Witness ==
    /\ last.op = "range"
    /\ last.out.ok
    /\ last.out.val > 0
    /\ "median" \in DOMAIN _cache[1]
    /\ Len(Data(1)) = 3
    /\ Data(1)[1] > Data(1)[2]
    /\ Data(1)[2] > Data(1)[3]

\* ---------------------------------------------------------------------------
\* The sum of the squares of s, over its distinct values.
RECURSIVE SumSquaresByValue(_, _)
SumSquaresByValue(S, s) ==
    IF S = {} THEN 0
    ELSE LET v == CHOOSE v \in S : TRUE
         IN  v * v * Count(s, v) + SumSquaresByValue(S \ {v}, s)

\* N times the sum of squared deviations from the mean, in integers:
\* N * sum(x^2) - sum(x)^2.
ScaledSqDev(s) ==
    Len(s) * SumSquaresByValue(Elems(s), s)
        - SumByValue(Elems(s), s) * SumByValue(Elems(s), s)

\* The square of a square root returned by standard_deviation(), and whether
\* that root is a non-negative number.
Squared(v) == IF "sqrt_of" \in DOMAIN v THEN v.sqrt_of ELSE RatMul(v, v)
NonNegative(v) ==
    IF "sqrt_of" \in DOMAIN v
    THEN v.sqrt_of.num >= 0 /\ v.sqrt_of.den > 0
    ELSE v.num >= 0 /\ v.den > 0

\* C12: for every data of N >= 1 elements the population standard deviation
\* is defined, its square is the sum of squared deviations from the mean
\* divided by N, and it is 0 when all elements are equal; for N >= 2 the
\* sample standard deviation is defined, its square is that sum divided by
\* N - 1, and it is not negative.
C12_StandardDeviation ==
    Data(1) # <<>> =>
        LET D == Data(1)
            N == Len(D)
            pop == standard_deviation(Obj(1), TRUE).out
            smp == standard_deviation(Obj(1), FALSE).out
        IN  /\ pop.ok
            /\ NonNegative(pop.val)
            /\ Squared(pop.val).num * N * N = ScaledSqDev(D) * Squared(pop.val).den
            /\ Cardinality(Elems(D)) = 1 => pop.val = float(0)
            /\ N >= 2 =>
                   /\ smp.ok
                   /\ NonNegative(smp.val)
                   /\ Squared(smp.val).num * N * (N - 1) =
                          ScaledSqDev(D) * Squared(smp.val).den

\* The sample standard deviation of three elements, not all equal, has been
\* returned: the root of a sum of squared deviations divided by 2.
C12_Witness ==
    /\ last.op = "standard_deviation"
    /\ ~last.population
    /\ last.out.ok
    /\ Len(Data(1)) = 3
    /\ Cardinality(Elems(Data(1))) = 3
    /\ Squared(last.out.val).num * 6 = ScaledSqDev(Data(1)) * Squared(last.out.val).den

\* ---------------------------------------------------------------------------
\* C13: __str__() never raises.  On empty data it returns the fixed no-data
\* message and leaves _cache and _sorted_data as they were; on non-empty data
\* it returns the full report, where the sample standard deviation reads
\* "N/A" exactly when data has fewer than 2 elements and the population
\* standard deviation never reads "N/A".
C13_Rendering ==
    [][last'.op = "__str__" =>
          LET c == last'.c
              out == last'.out
          IN  /\ out.ok
              /\ Data(c) = <<>> =>
                     /\ out.val = [text |-> "StatisticsCalculator: No data available"]
                     /\ _cache'[c] = _cache[c]
                     /\ _sorted_data'[c] = _sorted_data[c]
              /\ Data(c) # <<>> =>
                     /\ out.val.text = "Statistics Calculator Summary:"
                     /\ DOMAIN out.val =
                            {"text", "count", "min", "max", "range", "mean",
                             "median", "mode", "std_dev_sample", "std_dev_population"}
                     /\ out.val.std_dev_sample = NA <=> Len(Data(c)) < 2
                     /\ out.val.std_dev_population # NA]_vars

\* __str__() has rendered the report of a one-element data: sample standard
\* deviation "N/A", population standard deviation 0.
C13_Witness ==
    /\ last.op = "__str__"
    /\ Len(Data(1)) = 1
    /\ last.out.ok
    /\ last.out.val.text = "Statistics Calculator Summary:"
    /\ last.out.val.std_dev_sample = NA
    /\ last.out.val.std_dev_population = Fmt4(float(0))

\* ---------------------------------------------------------------------------
\* t is s in ascending order: the same elements with the same number of
\* occurrences, none followed by a smaller one.
IsSortedPermutation(t, s) ==
    /\ Len(t) = Len(s)
    /\ \A v \in Elems(s) \cup Elems(t) : Count(t, v) = Count(s, v)
    /\ \A i \in 1..(Len(t) - 1) : t[i] <= t[i + 1]

\* C14: in every reachable state the sorted view of each calculator is absent
\* or is the ascending sorted permutation of its current data, never a sort
\* of an earlier content.
C14_SortedViewCurrent ==
    \A c \in Calcs :
        _sorted_data[c] # None => IsSortedPermutation(_sorted_data[c][1], Data(c))

\* ---------------------------------------------------------------------------
\* C15: between two consecutive constructor or mutator calls on a calculator
\* its data is sorted at most once, whatever readers are called and in
\* whatever order: the sorted view is present exactly when that one sort has
\* been made, and every later call of the generation reuses it.
C15_SortOncePerGeneration ==
    \A c \in Calcs :
        /\ sorts[c] <= 1
        /\ sorts[c] = 1 <=> _sorted_data[c] # None

\* range() has returned after median() had sorted the data in the same
\* generation, with one sort made in all.
C15_Witness ==
    /\ last.op = "range"
    /\ last.c = 1
    /\ last.out.ok
    /\ "median" \in DOMAIN _cache[1]
    /\ "mean" \notin DOMAIN _cache[1]
    /\ sorts[1] = 1

\* ---------------------------------------------------------------------------
MemoisedOps == {"mean", "median", "mode"}

\* C16: the keys of the cache are always among mean, median and mode.  A
\* successful mean(), median() or mode() call returns the value stored under
\* its own key: the one already there if the key was present (the cache is
\* then left as it was), else the one the call adds, nothing else changing.
\* range() leaves the cache as it was, and standard_deviation() changes it at
\* most by adding the key mean, when it succeeds.
C16_CacheKeys ==
    [][\A c \in Calcs :
          /\ DOMAIN _cache'[c] \subseteq MemoisedOps
          /\ (last'.op \in MemoisedOps /\ last'.c = c /\ last'.out.ok) =>
                 /\ last'.op \in DOMAIN _cache'[c]
                 /\ last'.out.val = _cache'[c][last'.op]
                 /\ DOMAIN _cache'[c] = DOMAIN _cache[c] \cup {last'.op}
                 /\ \A k \in DOMAIN _cache[c] : _cache'[c][k] = _cache[c][k]
          /\ (last'.op = "range" /\ last'.c = c) => _cache'[c] = _cache[c]
          /\ (last'.op = "standard_deviation" /\ last'.c = c) =>
                 /\ DOMAIN _cache'[c] \subseteq DOMAIN _cache[c] \cup {"mean"}
                 /\ \A k \in DOMAIN _cache[c] : _cache'[c][k] = _cache[c][k]
                 /\ ~last'.out.ok => _cache'[c] = _cache[c]]_vars

\* The population standard deviation has been returned and mean is the one
\* key of the cache: the call stored the mean and nothing of its own.
C16_Witness ==
    /\ last.op = "standard_deviation"
    /\ last.c = 1
    /\ last.population
    /\ last.out.ok
    /\ DOMAIN _cache[1] = {"mean"}
    /\ Len(Data(1)) = 2

\* ---------------------------------------------------------------------------
ReaderOps ==
    {"mean", "median", "mode", "standard_deviation", "range", "summary", "__str__"}

\* C17: no reader call, succeeding or failing, changes data: every list holds
\* the same elements in the same order after the call as before it, and each
\* calculator refers to the same list.
C17_ReadersKeepData ==
    [][last'.op \in ReaderOps =>
          /\ heap' = heap
          /\ _data' = _data
          /\ \A c \in Calcs : Data(c)' = Data(c)]_vars

\* median() has computed the sorted view of data inserted in descending
\* order, and data is still in that order.
C17_Witness ==
    /\ last.op = "median"
    /\ last.c = 1
    /\ last.out.ok
    /\ Len(Data(1)) = 2
    /\ Data(1)[1] > Data(1)[2]
    /\ _sorted_data[1] = Some(<<Data(1)[2], Data(1)[1]>>)
    /\ DOMAIN _cache[1] = {"median"}

\* ---------------------------------------------------------------------------
\* C18: the sequence mode() returned (directly or in the summary() result)
\* is a copy, so the caller appending to it changes neither what mode()
\* returns afterwards nor the mode field of what summary() returns afterwards.
C18_ReturnedModeIsCopy ==
    [][\A c \in Calcs :
          (last'.op = "returned_mode.append" /\ last'.c = c) =>
              /\ (mode(Obj(c)).out)' = mode(Obj(c)).out
              /\ (summary(Obj(c)).out.val.mode)' = summary(Obj(c)).out.val.mode]_vars

\* ---------------------------------------------------------------------------
\* C19: a call of mean(), median(), mode(), range() or standard_deviation()
\* that fails leaves the whole state as it was: every list, the list each
\* calculator refers to, the sorted views and the caches (so the sample
\* standard deviation failing on one element adds no mean key).
C19_FailedReaderChangesNothing ==
    [][(/\ last'.op \in {"mean", "median", "mode", "range", "standard_deviation"}
        /\ ~last'.out.ok)
          => /\ heap' = heap
             /\ _data' = _data
             /\ _sorted_data' = _sorted_data
             /\ _cache' = _cache]_vars

\* The sample standard deviation has failed on one-element data whose median
\* was already cached, and the cache holds no mean key.
C19_Witness ==
    /\ last.op = "standard_deviation"
    /\ last.c = 1
    /\ ~last.population
    /\ last.out = Raise("ValueError", InsufficientMsg)
    /\ Len(Data(1)) = 1
    /\ DOMAIN _cache[1] = {"median"}
    /\ _sorted_data[1] = Some(Data(1))

\* ---------------------------------------------------------------------------
\* C20: in every reachable state, a calculator whose data is empty has an
\* empty cache and no sorted view.
C20_EmptyDataEmptyCache ==
    \A c \in Calcs :
        Data(c) = <<>> =>
            /\ DOMAIN _cache[c] = {}
            /\ _sorted_data[c] = None

\* summary() has returned on empty data (count 0, every statistic None) and
\* has left the cache empty and the sorted view absent.
C20_Witness ==
    /\ last.op = "summary"
    /\ last.c = 1
    /\ Data(1) = <<>>
    /\ last.out.ok
    /\ last.out.val.count = 0
    /\ last.out.val.mean = None
    /\ last.out.val.min = None
    /\ DOMAIN _cache[1] = {}
    /\ _sorted_data[1] = None

====
